---- MODULE Spec2Model ----
(***************************************************************************)
(* A model of discriminator/train.py: the Trainer's length mask, the       *)
(* expected-length penalty, the predicted-length reweighting of the span   *)
(* loss, the encoder-adversarial loss and the alternating optimisation of  *)
(* the QA model and the domain discriminator in Trainer.train.             *)
(*                                                                         *)
(* Tensors are modelled by what the claims need of them:                   *)
(*  - a probability vector is a vector of naturals summing to Denom        *)
(*    (the probability is the entry divided by Denom);                     *)
(*  - a gradient buffer is the set of loss terms that were backpropagated  *)
(*    into it, each tagged with the batch (global_idx) it was computed on; *)
(*  - a parameter tensor is the set of loss terms whose gradients the      *)
(*    optimizer steps have applied to it;                                  *)
(*  - a loss scalar is the set of its terms, the terms that carry a graph, *)
(*    and whether its value is finite, +inf or NaN.                        *)
(***************************************************************************)
EXTENDS Integers, Sequences, FiniteSets, TLC

\* ------------------------------------------------- bounds of the model
\* sequence length L (384 in the source, 5 in test/test.py)
SeqLen == 4
\* largest configured length_k
MaxK == 5
\* probabilities are multiples of 1/Denom
Denom == 2
\* largest configured number of discriminator steps per batch (adv_steps)
MaxAdvSteps == 3
\* largest batch the data loader yields
MaxBatchSize == 3
\* batches per epoch (len(train_dataloader))
NumBatches == 2
\* largest configured num_epochs
MaxEpochs == 2

\* ------------------------------------------------------ program constants
\* data_set_ids < 3 selects the in-domain examples
InDomainThreshold == 3

Pos == 0 .. (SeqLen - 1)
DomainIds == {InDomainThreshold - 1, InDomainThreshold}

VARIABLES
  self,              \* the Trainer's fields set by __init__
  pc,                \* position of Trainer.train
  epoch_num,         \* for epoch_num in range(self.num_epochs)
  batch_idx,         \* position of the batch in train_dataloader
  global_idx,        \* batches processed so far
  data_set_ids,      \* batch['data_set_id'], one domain id per example
  loss,              \* the scalar being assembled: its terms, which carry a graph, its value class
  adv,               \* what compute_discriminator_loss returned for the batch
  step,              \* for step in range(self.num_adv_steps)
  qa_grad,           \* .grad of the QA model's parameters
  dis_grad,          \* .grad of the discriminator's parameters
  model_params,      \* loss terms whose gradients qa_optim.step() applied to the QA model
  discriminator_params, \* loss terms whose gradients dis_optim.step() applied to the discriminator
  events,            \* backward passes and optimizer calls of the current batch, in order
  diagnostics,       \* what the current batch printed about a non-finite loss
  start_softmax,     \* softmax(start_logits) of one example (numerators over Denom)
  end_softmax,       \* softmax(end_logits) of one example
  length_loss,       \* numerator of the length loss over Denom*Denom
  lpc,               \* position of the length-penalty computation
  pred_start_index,  \* argmax(start_logits) of one example
  pred_end_index,    \* argmax(end_logits)
  start_positions,   \* gold start position
  end_positions,     \* gold end position
  pred_length,
  gold_length,
  weight,            \* per-example weight of the span loss
  wpc                \* position of the reweighting computation

trainVars == <<pc, epoch_num, batch_idx, global_idx, data_set_ids, loss, adv, step,
               qa_grad, dis_grad, model_params, discriminator_params, events,
               diagnostics>>
lenVars == <<start_softmax, end_softmax, length_loss, lpc>>
weightVars == <<pred_start_index, pred_end_index, start_positions, end_positions,
                pred_length, gold_length, weight, wpc>>
vars == <<self, trainVars, lenVars, weightVars>>

\* ------------------------------------------------------------- helpers
RECURSIVE SumTo(_, _)
\* f[0] + ... + f[n]
SumTo(f, n) == IF n < 0 THEN 0 ELSE f[n] + SumTo(f, n - 1)

Count(seq, x) == Cardinality({i \in 1 .. Len(seq) : seq[i] = x})

Max(a, b) == IF a >= b THEN a ELSE b
Min(a, b) == IF a <= b THEN a ELSE b
Abs(a) == IF a < 0 THEN -a ELSE a

RECURSIVE Gcd(_, _)
Gcd(a, b) == IF b = 0 THEN a ELSE Gcd(b, a % b)

\* ------------------------------------------------- Trainer.__init__
\* the slice of line 168 written i:i+k
RowBandBug(k) ==
  [i \in Pos |-> [j \in Pos |-> IF i <= j /\ j < i + k THEN 0 ELSE 1]]

\* self.length_mask = torch.ones(L, L); self.length_mask[i][i:i+k+1] = 0
RowBand(k) ==
  [i \in Pos |-> [j \in Pos |-> IF i <= j /\ j < i + k + 1 THEN 0 ELSE 1]]

\* torch.t
Transpose(m) == [i \in Pos |-> [j \in Pos |-> m[j][i]]]

\* line 169 left out
LengthMaskNoTranspose(k) == RowBand(k)

\* lines 166-169
LengthMask(k) == Transpose(RowBand(k))

Trainer_init(args) ==
  [ enable_discriminator |-> args.adv,
    num_adv_steps |-> args.adv_steps,
    enable_length_loss |-> args.enable_length_loss,
    enable_length_bp_penalty |-> args.enable_length_bp_penalty,
    num_epochs |-> args.num_epochs,
    length_k |-> args.length_k,
    length_mask |-> LengthMask(args.length_k) ]

\* the configurations of a training run
TrainArgs ==
  [ adv : BOOLEAN,
    adv_steps : 0 .. MaxAdvSteps,
    enable_length_loss : BOOLEAN,
    enable_length_bp_penalty : BOOLEAN,
    num_epochs : 1 .. MaxEpochs,
    length_k : {MaxK} ]

\* the configurations the length penalty and the reweighting are computed under
LossArgs ==
  [ adv : {FALSE},
    adv_steps : {0},
    enable_length_loss : {TRUE},
    enable_length_bp_penalty : {TRUE},
    num_epochs : {1},
    length_k : 0 .. MaxK ]

\* ------------------------------------- expected-length penalty (train, 349-359)
\* the values softmax can return for one example
Dist == {p \in [Pos -> 0 .. Denom] : SumTo(p, SeqLen - 1) = Denom}

\* torch.matmul of the (L,1) start column and the (1,L) end row, really transposed
start_end_mul_transposed(ps, pe) == [i \in Pos |-> [j \in Pos |-> ps[j] * pe[i]]]

\* torch.matmul(start_logits_softmax, end_logits_softmax); the torch.transpose
\* around it swaps dimension 1 with itself and changes nothing
start_end_mul(ps, pe) == [i \in Pos |-> [j \in Pos |-> ps[i] * pe[j]]]

\* torch.matmul of two L x L matrices
MatMul(a, b) ==
  [i \in Pos |-> [l \in Pos |-> SumTo([j \in Pos |-> a[i][j] * b[j][l]], SeqLen - 1)]]

\* torch.diagonal
Diagonal(m) == [i \in Pos |-> m[i][i]]

\* torch.sum(diag) / batch_size, for a batch of one example
LengthLoss(ps, pe, mask) ==
  SumTo(Diagonal(MatMul(start_end_mul(ps, pe), mask)), SeqLen - 1)

\* ------------------------------------------------------------ idle values
ZeroVec == [i \in Pos |-> 0]
NoAdv == [raised |-> FALSE, rows |-> <<>>, div |-> 1, input_rows |-> 0, target_rows |-> 0,
          attached |-> FALSE]
NoLoss == [terms |-> {}, graph |-> {}, reweighted |-> FALSE, value |-> "finite"]
NoWeight == [kind |-> "none", num |-> 0, den |-> 1]

TrainIdle ==
  /\ pc = "idle" /\ epoch_num = 0 /\ batch_idx = 0 /\ global_idx = 0
  /\ data_set_ids = <<>> /\ loss = NoLoss /\ adv = NoAdv /\ step = 0
  /\ qa_grad = {} /\ dis_grad = {} /\ model_params = {} /\ discriminator_params = {}
  /\ events = <<>> /\ diagnostics = <<>>

LenIdle ==
  /\ start_softmax = ZeroVec /\ end_softmax = ZeroVec /\ length_loss = 0 /\ lpc = "idle"

WeightIdle ==
  /\ pred_start_index = 0 /\ pred_end_index = 0 /\ start_positions = 0
  /\ end_positions = 0 /\ pred_length = 0 /\ gold_length = 0 /\ weight = NoWeight
  /\ wpc = "idle"

\* ------------------------------------------- the length penalty, step by step
InitLen ==
  /\ self \in {Trainer_init(a) : a \in LossArgs}
  /\ start_softmax = ZeroVec /\ end_softmax = ZeroVec /\ length_loss = 0
  /\ lpc = "softmax"
  /\ TrainIdle /\ WeightIdle

\* lines 350-352
Softmax ==
  /\ lpc = "softmax"
  /\ \E ps \in Dist, pe \in Dist : start_softmax' = ps /\ end_softmax' = pe
  /\ lpc' = "penalty"
  /\ UNCHANGED <<self, length_loss, trainVars, weightVars>>

\* lines 353-359
LengthPenalty ==
  /\ lpc = "penalty"
  /\ length_loss' = LengthLoss(start_softmax, end_softmax, self.length_mask)
  /\ lpc' = "done"
  /\ UNCHANGED <<self, start_softmax, end_softmax, trainVars, weightVars>>

NextLen == Softmax \/ LengthPenalty

SpecLen == InitLen /\ [][NextLen]_vars

\* ----------------------------- predicted-length reweighting (train, 302-324)
\* A weight is 1, 2 or exp(q) for a rational q = num/den in lowest terms; exp is
\* injective and exp(0) = 1, so two weights are equal iff their records are.
One == [kind |-> "const", num |-> 1, den |-> 1]
Two == [kind |-> "const", num |-> 2, den |-> 1]

\* 1 - g / p for integers g, p >= 1, in lowest terms
OneMinusRatio(g, p) ==
  LET n == p - g
      d == Gcd(Abs(n), p)
  IN  [num |-> n \div d, den |-> p \div d]

\* torch.exp
Exp(q) == IF q.num = 0 THEN One ELSE [kind |-> "exp", num |-> q.num, den |-> q.den]

\* torch.where
Where(filter, a, b) == IF filter THEN a ELSE b

\* the second filter written pred_length >= 0
WeightSecondFilterGeq(pred, gold) ==
  LET base == Exp(OneMinusRatio(Max(gold, 1), Max(pred, 1)))
      w1 == Where(pred > gold, base, One)
  IN  Where(pred >= 0, w1, Two)

\* the ratio written maxed_pred_length / maxed_gold_length
WeightRatioInverted(pred, gold) ==
  LET base == Exp(OneMinusRatio(Max(pred, 1), Max(gold, 1)))
      w1 == Where(pred > gold, base, One)
  IN  Where(pred > 0, w1, Two)

\* lines 306-315: the weight of one example
Weight(pred, gold) ==
  LET maxed_pred_length == Max(pred, 1)
      maxed_gold_length == Max(gold, 1)
      base == Exp(OneMinusRatio(maxed_gold_length, maxed_pred_length))
      w1 == Where(pred > gold, base, One)
  IN  Where(pred > 0, w1, Two)

\* Tensor.clamp_(lo, hi)
Clamp(x, lo, hi) == Min(Max(x, lo), hi)

\* gold positions as the data loader may deliver them, in range or not
GoldPositions == -1 .. (SeqLen + 1)

InitWeight ==
  /\ self \in {Trainer_init(a) : a \in {x \in LossArgs : x.length_k = MaxK}}
  /\ pred_start_index \in Pos /\ pred_end_index \in Pos
  /\ start_positions \in GoldPositions /\ end_positions \in GoldPositions
  /\ pred_length = 0 /\ gold_length = 0 /\ weight = NoWeight
  /\ wpc = "reweight"
  /\ TrainIdle /\ LenIdle

\* lines 303-315
Reweight ==
  /\ wpc = "reweight"
  /\ pred_length' = pred_end_index - pred_start_index + 1
  /\ gold_length' = end_positions - start_positions + 1
  /\ weight' = Weight(pred_end_index - pred_start_index + 1,
                      end_positions - start_positions + 1)
  /\ wpc' = "clamp"
  /\ UNCHANGED <<self, pred_start_index, pred_end_index, start_positions, end_positions,
                 trainVars, lenVars>>

\* lines 317-324; ignored_index = start_logits.size(1)
ClampPositions ==
  /\ wpc = "clamp"
  /\ start_positions' = Clamp(start_positions, 0, SeqLen)
  /\ end_positions' = Clamp(end_positions, 0, SeqLen)
  /\ wpc' = "loss"
  /\ UNCHANGED <<self, pred_start_index, pred_end_index, pred_length, gold_length, weight,
                 trainVars, lenVars>>

NextWeight == Reweight \/ ClampPositions

SpecWeight == InitWeight /\ [][NextWeight]_vars

\* ------------------------------ compute_discriminator_loss (234-254)
\* is_indomain_dataset = data_set_ids < 3
is_indomain_dataset(id) == id < InDomainThreshold

\* the positions of the batch that log_prob[is_indomain_dataset, :] keeps, in order
InDomainRows(ids) ==
  LET idx == [i \in 1 .. Len(ids) |-> i]
      keep(i) == is_indomain_dataset(ids[i])
  IN  SelectSeq(idx, keep)

\* nn.KLDivLoss(reduction="batchmean")(input, target): the pointwise term
\* target * (log target - input) broadcasts the two tensors over the batch
\* dimension, the terms are summed and the sum is divided by input.size(0).
\* `inp` lists the examples the rows of input come from; target has target_rows
\* identical uniform rows. The result lists the example each summed row reads.
KLDivBatchMean(inp, target_rows) ==
  IF Len(inp) = target_rows
    THEN [raised |-> FALSE, rows |-> inp, div |-> Len(inp)]
  ELSE IF Len(inp) = 1
    THEN [raised |-> FALSE, rows |-> [r \in 1 .. target_rows |-> inp[1]], div |-> 1]
  ELSE IF target_rows = 1
    THEN [raised |-> FALSE, rows |-> inp, div |-> Len(inp)]
  ELSE [raised |-> TRUE, rows |-> <<>>, div |-> Len(inp)]

\* the early return of line 251-252 left out
compute_discriminator_loss_no_early_return(ids) ==
  LET kl == KLDivBatchMean(InDomainRows(ids), Len(ids))
  IN  [raised |-> kl.raised, rows |-> kl.rows, div |-> kl.div,
       input_rows |-> Len(InDomainRows(ids)), target_rows |-> Len(ids),
       attached |-> TRUE]

\* lines 246-254. targets is built from the unrestricted log_prob (line 247), so
\* it has one row per example of the batch.
compute_discriminator_loss(ids) ==
  LET log_prob == InDomainRows(ids)
      target_rows == Len(ids)
      kl == KLDivBatchMean(log_prob, target_rows)
  IN  IF Len(log_prob) = 0
        THEN [raised |-> FALSE, rows |-> <<>>, div |-> 1,
              input_rows |-> 0, target_rows |-> target_rows, attached |-> FALSE]
        ELSE [raised |-> kl.raised, rows |-> kl.rows, div |-> kl.div,
              input_rows |-> Len(log_prob), target_rows |-> target_rows,
              attached |-> ~kl.raised]

\* ------------------------------------ forward_discriminator (256-267)
\* discriminator(embedding) without the detach()
forward_discriminator_attached(b) ==
  [dis |-> {[batch |-> b, term |-> "nll"]}, qa |-> {[batch |-> b, term |-> "nll"]}]

\* the gradient terms discriminator_loss.backward() adds for batch b: the NLL loss
\* reaches the discriminator's parameters, and through embedding.detach() nothing
\* of the QA model
forward_discriminator(b) ==
  [dis |-> {[batch |-> b, term |-> "nll"]}, qa |-> {}]

\* ---------------------------------------------- Trainer.train (269-416)
\* the batches train_dataloader can yield
Batches == UNION {[1 .. n -> DomainIds] : n \in 1 .. MaxBatchSize}

\* line 366 without its else branch
always_adversarial(s) == TRUE

\* line 366: if self.enable_discriminator
adversarial_branch(s) == s.enable_discriminator

\* the gradient terms loss.backward() adds for batch b
Backward(l, b) == {[batch |-> b, term |-> t] : t \in l.graph}

\* the loss terms a gradient buffer holds gradients of
Terms(grad) == {g.term : g \in grad}

\* lines 284-285 left out
zero_grad_skipped(grad) == grad

\* lines 284-285: optimizer.zero_grad()
zero_grad(grad) == {}

\* what a loss tensor holds: a finite number, +inf or NaN. The span losses are
\* cross entropies and the adversarial loss a KL divergence from log-probabilities,
\* which can be +inf (a log-probability of -inf) or NaN (a NaN logit); the length
\* loss is a sum of products of softmax outputs, finite unless a logit is NaN.
NumericClasses == {"finite", "inf", "nan"}
LengthLossClasses == {"finite", "nan"}

\* a + b on these classes (lines 330, 362, 372)
AddValue(a, b) ==
  IF a = "nan" \/ b = "nan" THEN "nan"
  ELSE IF a = "inf" \/ b = "inf" THEN "inf"
  ELSE "finite"

\* line 333: torch.isnan(loss)
isnan(v) == v = "nan"

\* line 334: the header of the diagnostic print-out
NanHeader == "######################## loss is nan"

Init ==
  /\ self \in {Trainer_init(a) : a \in TrainArgs}
  /\ pc = "fetch" /\ epoch_num = 0 /\ batch_idx = 0 /\ global_idx = 0
  /\ data_set_ids = <<>> /\ loss = NoLoss /\ adv = NoAdv /\ step = 0
  /\ qa_grad = {} /\ dis_grad = {} /\ model_params = {} /\ discriminator_params = {}
  /\ events = <<>> /\ diagnostics = <<>>
  /\ LenIdle /\ WeightIdle

\* lines 283-301: the next batch, both gradient buffers cleared, the forward pass
BeginBatch ==
  /\ pc = "fetch"
  /\ \E ids \in Batches : data_set_ids' = ids
  /\ qa_grad' = zero_grad(qa_grad) /\ dis_grad' = zero_grad(dis_grad)
  /\ \E v \in NumericClasses :
       loss' = [terms |-> {"span"}, graph |-> {"span"}, reweighted |-> FALSE, value |-> v]
  /\ adv' = NoAdv /\ step' = 0 /\ events' = <<>> /\ diagnostics' = <<>>
  /\ pc' = "bp_penalty"
  /\ UNCHANGED <<self, epoch_num, batch_idx, global_idx, model_params,
                 discriminator_params, lenVars, weightVars>>

\* lines 302-346: the span loss replaced by the reweighted span loss, which is
\* checked for NaN
ReweightSpanLoss ==
  /\ pc = "bp_penalty"
  /\ IF self.enable_length_bp_penalty
       THEN \E v \in NumericClasses :
              /\ loss' = [terms |-> {"span"}, graph |-> {"span"}, reweighted |-> TRUE,
                          value |-> v]
              /\ diagnostics' = IF isnan(v) THEN Append(diagnostics, NanHeader)
                                            ELSE diagnostics
       ELSE UNCHANGED <<loss, diagnostics>>
  /\ pc' = "length_loss"
  /\ UNCHANGED <<self, epoch_num, batch_idx, global_idx, data_set_ids, adv, step, qa_grad,
                 dis_grad, model_params, discriminator_params, events, lenVars, weightVars>>

\* lines 348-362: loss += self.length_lambda * length_loss
AddLengthLoss ==
  /\ pc = "length_loss"
  /\ IF self.enable_length_loss
       THEN \E v \in LengthLossClasses :
              loss' = [loss EXCEPT !.terms = @ \cup {"length"}, !.graph = @ \cup {"length"},
                                   !.value = AddValue(@, v)]
       ELSE loss' = loss
  /\ pc' = IF adversarial_branch(self) THEN "adv_loss" ELSE "qa_backward"
  /\ UNCHANGED <<self, epoch_num, batch_idx, global_idx, data_set_ids, adv, step, qa_grad,
                 dis_grad, model_params, discriminator_params, events, diagnostics,
                 lenVars, weightVars>>

\* lines 369-372: loss += self.discriminator_lambda * compute_discriminator_loss(...);
\* an exception of KLDivLoss leaves train
DiscriminatorLossForQa ==
  /\ pc = "adv_loss"
  /\ LET r == compute_discriminator_loss(data_set_ids)
     IN  /\ adv' = r
         /\ IF r.raised
              THEN pc' = "raised" /\ loss' = loss
              ELSE /\ pc' = "qa_backward"
                   /\ \E v \in (IF r.attached THEN NumericClasses ELSE {"finite"}) :
                        loss' = [loss EXCEPT
                                   !.terms = @ \cup {"adv"},
                                   !.graph = IF r.attached THEN @ \cup {"adv"} ELSE @,
                                   !.value = AddValue(@, v)]
  /\ UNCHANGED <<self, epoch_num, batch_idx, global_idx, data_set_ids, step, qa_grad,
                 dis_grad, model_params, discriminator_params, events, diagnostics,
                 lenVars, weightVars>>

\* lines 375 and 386: loss.backward(). The adversarial term is computed through the
\* discriminator on the attached representation, so it reaches both models.
QaBackward ==
  /\ pc = "qa_backward"
  /\ qa_grad' = qa_grad \cup Backward(loss, global_idx)
  /\ dis_grad' = dis_grad \cup {g \in Backward(loss, global_idx) : g.term = "adv"}
  /\ events' = Append(events, "qa_backward")
  /\ pc' = "qa_step"
  /\ UNCHANGED <<self, epoch_num, batch_idx, global_idx, data_set_ids, loss, adv, step,
                 model_params, discriminator_params, diagnostics,
                 lenVars, weightVars>>

\* lines 376 and 387: qa_optim.step()
QaStep ==
  /\ pc = "qa_step"
  /\ model_params' = model_params \cup Terms(qa_grad)
  /\ events' = Append(events, "qa_step")
  /\ step' = 0
  /\ pc' = IF adversarial_branch(self) /\ 0 < self.num_adv_steps
             THEN "dis_step" ELSE "report"
  /\ UNCHANGED <<self, epoch_num, batch_idx, global_idx, data_set_ids, loss, adv,
                 qa_grad, dis_grad, discriminator_params, diagnostics,
                 lenVars, weightVars>>

\* line 379: dis_optim.step() on whatever dis_grad holds
DisStepFirst ==
  /\ pc = "dis_step"
  /\ discriminator_params' = discriminator_params \cup Terms(dis_grad)
  /\ events' = Append(events, "dis_step")
  /\ pc' = "dis_zero_grad"
  /\ UNCHANGED <<self, epoch_num, batch_idx, global_idx, data_set_ids, loss, adv, step,
                 qa_grad, dis_grad, model_params, diagnostics,
                 lenVars, weightVars>>

\* line 380: dis_optim.zero_grad()
DisZeroGrad ==
  /\ pc = "dis_zero_grad"
  /\ dis_grad' = {}
  /\ pc' = "dis_forward"
  /\ UNCHANGED <<self, epoch_num, batch_idx, global_idx, data_set_ids, loss, adv, step,
                 qa_grad, model_params, discriminator_params, events, diagnostics,
                 lenVars, weightVars>>

\* lines 381-383: forward_discriminator and discriminator_loss.backward()
DiscriminatorBackward ==
  /\ pc = "dis_forward"
  /\ dis_grad' = dis_grad \cup forward_discriminator(global_idx).dis
  /\ qa_grad' = qa_grad \cup forward_discriminator(global_idx).qa
  /\ events' = Append(events, "dis_backward")
  /\ pc' = "dis_step_again"
  /\ UNCHANGED <<self, epoch_num, batch_idx, global_idx, data_set_ids, loss, adv, step,
                 model_params, discriminator_params, diagnostics,
                 lenVars, weightVars>>

\* line 384: dis_optim.step(), and the loop of line 378
DisStepSecond ==
  /\ pc = "dis_step_again"
  /\ discriminator_params' = discriminator_params \cup Terms(dis_grad)
  /\ events' = Append(events, "dis_step")
  /\ step' = step + 1
  /\ pc' = IF step + 1 < self.num_adv_steps THEN "dis_step" ELSE "report"
  /\ UNCHANGED <<self, epoch_num, batch_idx, global_idx, data_set_ids, loss, adv,
                 qa_grad, dis_grad, model_params, diagnostics,
                 lenVars, weightVars>>

\* lines 388-415 and the loops of lines 280 and 283. The periodic evaluation runs
\* under torch.no_grad() and touches neither gradients nor parameters.
EndBatch ==
  /\ pc = "report"
  /\ global_idx' = global_idx + 1
  /\ IF batch_idx + 1 < NumBatches
       THEN batch_idx' = batch_idx + 1 /\ epoch_num' = epoch_num /\ pc' = "fetch"
       ELSE /\ batch_idx' = 0
            /\ epoch_num' = epoch_num + 1
            /\ pc' = IF epoch_num + 1 < self.num_epochs THEN "fetch" ELSE "done"
  /\ UNCHANGED <<self, data_set_ids, loss, adv, step, qa_grad, dis_grad, model_params,
                 discriminator_params, events, diagnostics,
                 lenVars, weightVars>>

Next ==
  \/ BeginBatch
  \/ ReweightSpanLoss
  \/ AddLengthLoss
  \/ DiscriminatorLossForQa
  \/ QaBackward
  \/ QaStep
  \/ DisStepFirst
  \/ DisZeroGrad
  \/ DiscriminatorBackward
  \/ DisStepSecond
  \/ EndBatch

Spec == Init /\ [][Next]_vars

\* ========================================================= claims C1, C7-C10
\* the batch in hand has examples and none of them is in-domain
NoInDomainExample ==
  /\ data_set_ids # <<>>
  /\ \A i \in 1 .. Len(data_set_ids) : data_set_ids[i] >= InDomainThreshold

\* the positions of the in-domain examples of the batch in hand
InDomainPositions == {i \in 1 .. Len(data_set_ids) : data_set_ids[i] < InDomainThreshold}

\* the adversarial loss of the batch in hand has been computed (or has raised)
AdvLossComputed == pc \in {"qa_backward", "qa_step", "dis_step", "dis_zero_grad",
                           "dis_forward", "dis_step_again", "report", "raised"}

\* the terms of the composite total
CompositeTerms == {"span", "length", "adv"}

\* C1 as stated: with adversarial mode enabled and N discriminator steps
\* configured, a processed batch saw exactly one base-model optimizer update and
\* exactly N discriminator optimizer updates, the base-model update first.
C1_OneQaStepThenNDisSteps ==
  (self.enable_discriminator /\ pc = "report") =>
    /\ Count(events, "qa_step") = 1
    /\ Count(events, "dis_step") = self.num_adv_steps
    /\ \A i, j \in 1 .. Len(events) :
         (events[i] = "qa_step" /\ events[j] = "dis_step") => i < j

\* C7: when no example of the batch is in-domain, the encoder-adversarial loss is
\* the constant 0, nothing is raised, the step runs its one backward pass and its
\* base-model update, which applies the gradients of the other terms, and no
\* adversarial gradient of the batch reaches a gradient buffer of either model.
C7_NoInDomainExampleGivesZero ==
  (self.enable_discriminator /\ NoInDomainExample) =>
    /\ pc # "raised"
    /\ AdvLossComputed =>
         /\ ~adv.raised /\ adv.rows = <<>> /\ ~adv.attached
         /\ "adv" \in loss.terms /\ "adv" \notin loss.graph
    /\ [batch |-> global_idx, term |-> "adv"] \notin (qa_grad \cup dis_grad)
    /\ pc = "report" =>
         /\ Count(events, "qa_backward") = 1
         /\ Count(events, "qa_step") = 1
         /\ qa_grad = {[batch |-> global_idx, term |-> t] : t \in loss.terms \ {"adv"}}
         /\ Terms(qa_grad) \subseteq model_params

\* a batch of several examples, none in-domain, went through the adversarial
\* branch and its discriminator steps
C7_Witness ==
  /\ self.enable_discriminator /\ NoInDomainExample /\ Len(data_set_ids) >= 2
  /\ self.num_adv_steps >= 1 /\ pc = "report"
  /\ adv.target_rows = Len(data_set_ids) /\ adv.input_rows = 0

\* C8 as stated: for every batch with at least one in-domain example the
\* encoder-adversarial loss is computed without an error, the uniform target has
\* as many rows as the restricted log-probabilities, and the loss is the KL term
\* of each in-domain example once, divided by the number of in-domain examples.
C8_AveragedOverInDomainExamples ==
  (self.enable_discriminator /\ AdvLossComputed /\ InDomainPositions # {}) =>
    /\ pc # "raised" /\ ~adv.raised
    /\ adv.target_rows = adv.input_rows
    /\ Len(adv.rows) = Cardinality(InDomainPositions)
    /\ {adv.rows[r] : r \in 1 .. Len(adv.rows)} = InDomainPositions
    /\ adv.div = Cardinality(InDomainPositions)

\* C9: with the adversarial flag disabled, every batch runs exactly one backward
\* pass and one base-model update and no discriminator update, the loss is the
\* span loss plus the length loss when that is enabled, with no adversarial term,
\* and the discriminator's parameters and gradients are never touched.
C9_NoAdversaryWhenDisabled ==
  ~self.enable_discriminator =>
    /\ discriminator_params = {} /\ dis_grad = {}
    /\ Count(events, "dis_step") = 0 /\ Count(events, "dis_backward") = 0
    /\ "adv" \notin loss.terms /\ pc \notin {"adv_loss", "raised"}
    /\ Terms(qa_grad) \cup model_params \subseteq {"span", "length"}
    /\ pc = "report" =>
         /\ events = <<"qa_backward", "qa_step">>
         /\ loss.terms = {"span"} \cup (IF self.enable_length_loss THEN {"length"} ELSE {})
         /\ qa_grad = {[batch |-> global_idx, term |-> t] : t \in loss.terms}
         /\ Terms(qa_grad) \subseteq model_params

\* the second batch was processed with the flag disabled, the length loss enabled
\* and discriminator steps configured
C9_Witness ==
  /\ ~self.enable_discriminator /\ self.num_adv_steps >= 1 /\ self.enable_length_loss
  /\ pc = "report" /\ global_idx >= 1
  /\ events = <<"qa_backward", "qa_step">>

\* a step that changes the base model's parameters is qa_optim.step(), applying qa_grad
OnlyQaStepChangesModel ==
  (model_params' # model_params) =>
    (pc = "qa_step" /\ model_params' = model_params \cup Terms(qa_grad))

\* the discriminator's optimizer steps, zero_grad and backward pass leave the base
\* model's gradients and parameters as they are
DiscriminatorLeavesModel ==
  (pc \in {"dis_step", "dis_zero_grad", "dis_forward", "dis_step_again"}) =>
    (qa_grad' = qa_grad /\ model_params' = model_params)

\* C10: the base model's parameters change only in qa_optim.step(), which applies
\* exactly the gradients of the composite total of the batch in hand; that total
\* is backpropagated once per batch; and neither a discriminator backward pass nor
\* a discriminator optimizer step changes the base model's gradients or parameters.
C10_BaseModelFrame ==
  /\ [](Terms(qa_grad) \cup model_params \subseteq CompositeTerms)
  /\ [](pc = "qa_step" => qa_grad = Backward(loss, global_idx))
  /\ [](Count(events, "qa_backward") <= 1)
  /\ [](pc = "report" => Count(events, "qa_backward") = 1)
  /\ [][OnlyQaStepChangesModel]_vars
  /\ [][DiscriminatorLeavesModel]_vars

\* a batch whose composite total had all three terms attached was stepped, and at
\* least two discriminator iterations ran after it
C10_Witness ==
  /\ self.enable_discriminator /\ pc = "report" /\ step >= 2
  /\ qa_grad = {[batch |-> global_idx, term |-> t] : t \in CompositeTerms}
  /\ model_params = CompositeTerms
  /\ "nll" \in discriminator_params
  /\ Count(events, "dis_backward") >= 2

\* ========================================================== claims C11, C14
\* C11 as stated: every dis_optim.step() applies gradients of the discriminator
\* NLL loss on the detached representation only; none, the first after the QA step
\* included, applies a gradient the composite-loss backward pass left in the
\* discriminator's gradient buffer.
C11_DisStepsApplyNllOnly ==
  /\ pc \in {"dis_step", "dis_step_again"} => Terms(dis_grad) \subseteq {"nll"}
  /\ discriminator_params \subseteq {"nll"}

\* C14: gradients never carry over between batches: once a batch has begun, both
\* gradient buffers hold only gradients computed on that batch, so qa_optim.step()
\* and every dis_optim.step() of batch t apply gradients of batch t only.
C14_NoGradientCarriedOver ==
  pc \notin {"fetch", "done", "idle"} =>
    /\ \A g \in qa_grad \cup dis_grad : g.batch = global_idx
    /\ pc = "bp_penalty" => (qa_grad = {} /\ dis_grad = {})

\* a later batch reaches its second dis_optim.step() with gradients in both
\* buffers, after an earlier batch has left gradients behind
C14_Witness ==
  /\ global_idx >= 1 /\ pc = "dis_step_again" /\ step >= 1
  /\ qa_grad # {} /\ dis_grad # {}
  /\ "nll" \in discriminator_params

\* ======================================================= claims C2, C3, C4
\* the mass start_softmax x end_softmax puts on the pairs (start i, end j) in S
Mass(S) ==
  SumTo([i \in Pos |->
           SumTo([j \in Pos |-> IF <<i, j>> \in S THEN start_softmax[i] * end_softmax[j]
                                                ELSE 0], SeqLen - 1)], SeqLen - 1)

\* pairs whose implied answer length j - i + 1 exceeds k
LongerThanK == {ij \in Pos \X Pos : ij[2] - ij[1] + 1 > self.length_k}
\* pairs whose end lies before their start
Inverted == {ij \in Pos \X Pos : ij[2] < ij[1]}
\* pairs the code's mask weighs with 1: end before start, or end more than k after start
Penalised == {ij \in Pos \X Pos : ij[2] < ij[1] \/ ij[2] - ij[1] > self.length_k}

\* C2 as stated: with k >= L the mask is all-zero and the penalty is 0 for every
\* pair of distributions.
C2_AllZeroWhenKLarge ==
  self.length_k >= SeqLen =>
    /\ \A i \in Pos, j \in Pos : self.length_mask[i][j] = 0
    /\ lpc = "done" => length_loss = 0

\* C2 amended: with k >= L the mask is 0 exactly on and below the diagonal and 1
\* above it; the penalty is the mass on pairs whose end precedes their start, and
\* is 0 exactly when the distributions put no mass on such a pair.
C2_InvertedMassWhenKLarge ==
  self.length_k >= SeqLen =>
    /\ \A i \in Pos, j \in Pos : self.length_mask[i][j] = (IF i >= j THEN 0 ELSE 1)
    /\ lpc = "done" =>
         /\ length_loss = Mass(Inverted)
         /\ length_loss = 0 <=>
              \A i \in Pos, j \in Pos : j < i => start_softmax[i] * end_softmax[j] = 0

\* k >= L and the penalty was computed for distributions with mass on an inverted pair
C2_Witness ==
  /\ self.length_k >= SeqLen /\ lpc = "done" /\ length_loss > 0
  /\ \E i \in Pos, j \in Pos : j < i /\ start_softmax[i] * end_softmax[j] > 0

\* C3 as stated: the trace is the mass on exactly the pairs of implied length > k.
C3_TraceIsMassLongerThanK ==
  lpc = "done" => length_loss = Mass(LongerThanK)

\* C3 amended: the trace is the mass on exactly the pairs (i, j) with j < i (end
\* before start) or j - i > k (implied length above k + 1).
C3_TraceIsMassPenalised ==
  lpc = "done" => length_loss = Mass(Penalised)

\* the penalty was computed with mass both on a pair of length k + 1 (not
\* penalised) and on an inverted pair (penalised)
C3_Witness ==
  /\ lpc = "done"
  /\ \E i \in Pos, j \in Pos :
       j - i = self.length_k /\ start_softmax[i] * end_softmax[j] > 0
  /\ \E i \in Pos, j \in Pos : j < i /\ start_softmax[i] * end_softmax[j] > 0
  /\ length_loss > 0 /\ length_loss < Denom * Denom

\* C4 as stated: entry (i, j) of the mask is 0 iff |i - j| <= k.
C4_SymmetricBand ==
  \A i \in Pos, j \in Pos :
    self.length_mask[i][j] = (IF Abs(i - j) <= self.length_k THEN 0 ELSE 1)

\* C4 amended: entry (i, j) of the mask is 0 iff 0 <= i - j <= k, and 1 otherwise:
\* a one-sided band, on and below the diagonal.
C4_LowerBand ==
  \A i \in Pos, j \in Pos :
    self.length_mask[i][j] =
      (IF 0 <= i - j /\ i - j <= self.length_k THEN 0 ELSE 1)

\* a mask with k >= 1 whose entries inside |i - j| <= k differ across the diagonal
C4_Witness ==
  /\ self.length_k >= 1 /\ self.length_k < SeqLen - 1
  /\ \E i \in Pos, j \in Pos :
       /\ i < j /\ j - i <= self.length_k
       /\ self.length_mask[i][j] = 1 /\ self.length_mask[j][i] = 0
  /\ \E i \in Pos, j \in Pos : i - j > self.length_k /\ self.length_mask[i][j] = 1

\* ========================================================== claims C5, C6
\* the ordered rules of the specification: the base weight, replaced by 1 when
\* pred <= max(gold, 1), then replaced by 2 when pred <= 0
RuleWeight(pred, gold) ==
  LET clamped_pred == Max(pred, 1)
      clamped_gold == Max(gold, 1)
      rule1 == Exp(OneMinusRatio(clamped_gold, clamped_pred))
      rule2 == IF pred <= clamped_gold THEN One ELSE rule1
  IN  IF pred <= 0 THEN Two ELSE rule2

\* C5: for all predicted and gold lengths, also those <= 0, the weight the
\* training step computes is the weight of the ordered rules, and it is 2
\* whenever pred_length <= 0; comparing against the unclamped gold length never
\* gives another weight than comparing against the clamped one.
C5_WeightFollowsRules ==
  wpc # "reweight" =>
    /\ weight = RuleWeight(pred_length, gold_length)
    /\ pred_length <= 0 => weight = Two

\* the two comparisons disagree (gold < pred <= max(gold, 1)) and the weight is 1
C5_Witness ==
  /\ wpc = "clamp"
  /\ pred_length > gold_length /\ pred_length <= Max(gold_length, 1)
  /\ weight = One

\* C6 as stated: whenever pred_length = gold_length the weight is 1, and whenever
\* pred_length = 2 * gold_length with gold_length >= 1 the weight is exp(1 - 1/2).
C6_EqualLengthsWeighOne ==
  wpc # "reweight" =>
    /\ pred_length = gold_length => weight = One
    /\ (gold_length >= 1 /\ pred_length = 2 * gold_length) =>
         weight = [kind |-> "exp", num |-> 1, den |-> 2]

\* C6 amended: whenever pred_length = gold_length >= 1 the weight is 1 (when both
\* are <= 0 it is 2), and whenever pred_length = 2 * gold_length with
\* gold_length >= 1 the weight is exp(1 - 1/2).
C6_EqualPositiveLengthsWeighOne ==
  wpc # "reweight" =>
    /\ (pred_length = gold_length /\ pred_length >= 1) => weight = One
    /\ (pred_length = gold_length /\ pred_length <= 0) => weight = Two
    /\ (gold_length >= 1 /\ pred_length = 2 * gold_length) =>
         weight = [kind |-> "exp", num |-> 1, den |-> 2]

\* a weight was computed for pred_length = 2 * gold_length with gold_length >= 2
C6_Witness ==
  /\ wpc = "clamp"
  /\ gold_length >= 2 /\ pred_length = 2 * gold_length
  /\ weight = [kind |-> "exp", num |-> 1, den |-> 2]

\* ============================================================== claim C12
\* C12: the gold positions are clamped to [0, L] before the training step uses
\* them: once the step has clamped them, the weight it computed is the weight of
\* the gold length taken between the clamped positions, so an out-of-range gold
\* position never reaches the weight with its unclamped value.
C12_WeightFromClampedPositions ==
  wpc = "loss" =>
    weight = Weight(pred_length, end_positions - start_positions + 1)

\* ============================================================== claim C13
\* the total loss is not finite; a sum is not finite exactly when one of its
\* components is not
NonFinite(v) == v \in {"nan", "inf"}

\* the composite loss of the batch is complete
LossComposed ==
  pc \in {"qa_backward", "qa_step", "dis_step", "dis_zero_grad", "dis_forward",
          "dis_step_again", "report"}

\* C13: whenever the total loss or one of its components is NaN or infinite in a
\* training step, the step emits the diagnostic output, whatever the flags are;
\* and the detection is not fatal: a step that emitted it still runs its backward
\* pass and its base-model update and reaches the end of the batch.
C13_NonFiniteLossIsDiagnosed ==
  /\ (LossComposed /\ NonFinite(loss.value)) => diagnostics # <<>>
  /\ diagnostics # <<>> => pc # "raised" \/ adv.raised
  /\ (pc = "report" /\ diagnostics # <<>>) =>
       (Count(events, "qa_backward") = 1 /\ Count(events, "qa_step") = 1)

====
